---------------------------- MODULE Spec2Model ----------------------------
(***************************************************************************)
(* Polygons manager: the React component App (state, handlers, remote      *)
(* calls, the canvas drawing) together with the controls of AppView that   *)
(* invoke the handlers.                                                    *)
(*                                                                         *)
(* The repository holds two versions of the component:                     *)
(*   "current"  src/unnamed/part_000  (App + AppView, with `loading`,      *)
(*              window.confirm and the duplicate-name branch)              *)
(*   "legacy"   src/polygon-interface/src/App.tsx  (one file, no `loading`)*)
(* `variant` selects the one that is mounted; it never changes.            *)
(*                                                                         *)
(* Every async handler invocation is a record of `ops`; its `pc` is the    *)
(* await at which the handler is suspended.  The remote store is the       *)
(* black box of spec.md section 6.                                         *)
(*                                                                         *)
(* drawCanvas paints from the onload of an image it starts loading; it     *)
(* returns at once where the canvas gives no 2D context (`ctx`).  Drawing  *)
(* writes no component state, so Spec explores the component without a     *)
(* context and SpecCanvas explores the drawing with one.                   *)
(***************************************************************************)
EXTENDS Integers, Sequences, FiniteSets, TLC

VARIABLES
  variant,          \* "current" | "legacy": which App is mounted
  polygons,         \* useState<Polygon[]>([])
  currentPolygon,   \* useState<number[][]>([])
  isDrawing,        \* useState(false)
  newPolygonName,   \* useState('')   (a string is a sequence of characters)
  showSaveButton,   \* useState(false)
  showNameDialog,   \* useState(false)
  loading,          \* useState(false)  (current only; legacy has no such state)
  ops,              \* the suspended async handlers, oldest first
  server,           \* the remote polygon store
  latestResp,       \* history: outcome of the most recently issued GET /polygons
  mutated,          \* history: some POST or DELETE handler completed after a 2xx
  last,             \* history: what the last step did
  clicked,          \* history: the pointer events the draft was built from
  ctx,              \* canvas.getContext('2d') gives a context (never changes)
  pendingDraws,     \* the drawCanvas calls whose image has not loaded, oldest
                    \* first: the polygons and currentPolygon each one closed over
  canvas,           \* what the canvas shows
  painted           \* history: the state the canvas was last painted from

vars == <<variant, polygons, currentPolygon, isDrawing, newPolygonName,
          showSaveButton, showNameDialog, loading, ops, server,
          latestResp, mutated, last, clicked, ctx, pendingDraws, canvas, painted>>

uiVars == <<currentPolygon, isDrawing, newPolygonName, showSaveButton, showNameDialog>>

-----------------------------------------------------------------------------
(* Bounds *)

\* longest draft a click may still extend
MaxPoints == 4
\* longest draft the dialog's Save button submits
MaxSavedPoints == 3
\* most async handlers suspended at once
MaxOps == 2
\* most polygons the store holds before it refuses a create
MaxStored == 1
\* most drawCanvas calls waiting for their image at once
MaxDraws == 2

-----------------------------------------------------------------------------
(* Values *)

Variants == {"current", "legacy"}

\* canvas.getBoundingClientRect()
Rect == [left |-> 10, top |-> 20]

\* the pointer events a user may produce over the canvas
Clicks == {[clientX |-> 11, clientY |-> 21]}

\* the pointer events of SpecCanvas: two places, so that order shows
CanvasClicks == {[clientX |-> 11, clientY |-> 21], [clientX |-> 12, clientY |-> 23]}

\* the values a user may put into the name field
NameInputs == {<< >>, <<" ">>, <<" ", "a">>}

\* what the store may hold when the page is opened
InitialStores ==
  { << >>,
    << [id |-> 1, name |-> <<"a">>, points |-> <<(<<1, 1>>), (<<1, 1>>), (<<1, 1>>)>>] >> }

\* what the store may hold in SpecCanvas: the second polygon has too few points
\* to be painted
CanvasStores ==
  { << [id |-> 1, name |-> <<"a">>, points |-> <<(<<0, 0>>), (<<3, 0>>), (<<0, 3>>)>>],
       [id |-> 2, name |-> <<"b">>, points |-> <<(<<4, 4>>), (<<6, 6>>)>>],
       [id |-> 3, name |-> <<"c">>, points |-> <<(<<3, 3>>), (<<6, 3>>), (<<3, 6>>), (<<0, 0>>)>>] >>,
    << [id |-> 3, name |-> <<"c">>, points |-> <<(<<3, 3>>), (<<6, 3>>), (<<3, 6>>), (<<0, 0>>)>>],
       [id |-> 1, name |-> <<"a">>, points |-> <<(<<0, 0>>), (<<3, 0>>), (<<0, 3>>)>>] >> }

\* String.prototype.trim on a sequence of characters
RECURSIVE trimStart(_)
trimStart(s) == IF s # << >> /\ Head(s) = " " THEN trimStart(Tail(s)) ELSE s

RECURSIVE trimEnd(_)
trimEnd(s) ==
  IF s # << >> /\ s[Len(s)] = " " THEN trimEnd(SubSeq(s, 1, Len(s) - 1)) ELSE s

trim(s) == trimEnd(trimStart(s))

RemoveAt(s, i) == SubSeq(s, 1, i - 1) \o SubSeq(s, i + 1, Len(s))

Ids(ps) == {ps[k].id : k \in 1..Len(ps)}

NamesOf(ps) == {ps[k].name : k \in 1..Len(ps)}


-----------------------------------------------------------------------------
(* Suspended handlers *)

\* One invocation of an async handler.  kind: the remote call it makes
\* ("list" is fetchPolygons called from the mount effect).  pc:
\*   "sent"   POST/DELETE issued (setLoading(true), the delay and the fetch),
\*            the awaited fetch has not resumed; the store handles the request
\*            in the step that resumes it
\*   "lsent"  GET /polygons issued by fetchPolygons, not yet answered
\*   "lresp"  the GET is answered (op.lstatus, op.data), fetchPolygons has not
\*            resumed: answers may be delivered in another order than asked
\*   "json"   createPolygon has returned response.json(), still pending
\* name/points/id are the request's arguments; status and body are the answer
\* to the POST/DELETE (response.ok, and what response.json() will give);
\* lstatus and data are the answer to the GET.  rawName, polys0, confirmed and
\* latest are history: the name field and the collection when the handler was
\* invoked, whether window.confirm was answered yes, and whether this
\* handler's GET is the most recently issued one.
Op(kind, name, raw, pts, id, conf, polys) ==
  [kind |-> kind, pc |-> IF kind = "list" THEN "lsent" ELSE "sent",
   name |-> name, rawName |-> raw, points |-> pts, id |-> id,
   status |-> "none", body |-> "none", lstatus |-> "none", data |-> << >>,
   latest |-> (kind = "list"), confirmed |-> conf, polys0 |-> polys]

Pending == [state |-> "pending", data |-> << >>]

\* setLoading(v): the legacy component has no loading state
setLoading(v) == IF variant = "current" THEN v ELSE loading

\* op i issues GET /polygons: it becomes the most recently issued list
IssueList(i) ==
  [k \in 1..Len(ops) |->
     IF k = i THEN [ops[k] EXCEPT !.pc = "lsent", !.latest = TRUE]
     ELSE [ops[k] EXCEPT !.latest = FALSE]]

\* a request is on its way to the store or its answer on its way back
InFlight(op) == op.pc \in {"sent", "lsent", "lresp"}

\* the state a drawCanvas call closes over
Snapshot(polys, draft) == [polygons |-> polys, currentPolygon |-> draft]

\* the canvas element before anything is painted on it
Blank == [image |-> FALSE, polygons |-> << >>, draft |-> << >>]

\* the MUI Dialog is modal: while it is open its backdrop takes every pointer
\* event aimed at the rest of the page
ModalOpen == showNameDialog

-----------------------------------------------------------------------------
(* Initial state: first render, the mount effect has called fetchPolygons *)

Init ==
  /\ variant \in Variants
  /\ polygons = << >>
  /\ currentPolygon = << >>
  /\ isDrawing = FALSE
  /\ newPolygonName = << >>
  /\ showSaveButton = FALSE
  /\ showNameDialog = FALSE
  /\ loading = (variant = "current")
  /\ ops = << Op("list", << >>, << >>, << >>, 0, FALSE, << >>) >>
  /\ server \in InitialStores
  /\ latestResp = Pending
  /\ mutated = FALSE
  /\ last = "mount"
  /\ clicked = << >>
  /\ ctx = FALSE
  /\ pendingDraws = << >>
  /\ canvas = Blank
  /\ painted = Snapshot(<< >>, << >>)

\* the same with a 2D context: the redraw effect of the first render has
\* called drawCanvas
InitCanvas ==
  /\ variant \in Variants
  /\ polygons = << >>
  /\ currentPolygon = << >>
  /\ isDrawing = FALSE
  /\ newPolygonName = << >>
  /\ showSaveButton = FALSE
  /\ showNameDialog = FALSE
  /\ loading = (variant = "current")
  /\ ops = << Op("list", << >>, << >>, << >>, 0, FALSE, << >>) >>
  /\ server \in CanvasStores
  /\ latestResp = Pending
  /\ mutated = FALSE
  /\ last = "mount"
  /\ clicked = << >>
  /\ ctx = TRUE
  /\ pendingDraws = << Snapshot(<< >>, << >>) >>
  /\ canvas = Blank
  /\ painted = Snapshot(<< >>, << >>)

-----------------------------------------------------------------------------
(* Interaction handlers *)

\* canvas-local coordinate of a pointer event
canvasPoint(e) == <<e.clientX - Rect.left, e.clientY - Rect.top>>

\* the click handler, had it put the new point in front of the draft
handleCanvasClickPrepends(e) ==
  /\ ~ModalOpen
  /\ Len(currentPolygon) < MaxPoints
  /\ IF ~isDrawing
       THEN /\ UNCHANGED uiVars
            /\ last' = "clickIgnored"
       ELSE /\ showSaveButton' = IF Len(currentPolygon) > 1 THEN TRUE ELSE showSaveButton
            /\ currentPolygon' = <<canvasPoint(e)>> \o currentPolygon
            /\ UNCHANGED <<isDrawing, newPolygonName, showNameDialog>>
            /\ last' = "click"
  /\ UNCHANGED <<variant, polygons, loading, ops, server, latestResp, mutated>>

handleCanvasClick(e) ==
  /\ ~ModalOpen
  /\ Len(currentPolygon) < MaxPoints
  /\ IF ~isDrawing
       THEN /\ UNCHANGED uiVars
            /\ last' = "clickIgnored"
       ELSE /\ showSaveButton' = IF Len(currentPolygon) > 1 THEN TRUE ELSE showSaveButton
            /\ currentPolygon' = Append(currentPolygon, canvasPoint(e))
            /\ UNCHANGED <<isDrawing, newPolygonName, showNameDialog>>
            /\ last' = "click"
  /\ UNCHANGED <<variant, polygons, loading, ops, server, latestResp, mutated>>

\* the Draw New Polygon button (rendered while not drawing)
startDrawing ==
  /\ ~ModalOpen
  /\ ~isDrawing
  /\ isDrawing' = TRUE
  /\ currentPolygon' = << >>
  /\ last' = "startDrawing"
  /\ UNCHANGED <<variant, polygons, newPolygonName, showSaveButton, showNameDialog,
                 loading, ops, server, latestResp, mutated>>

\* the Cancel button, had it only left drawing mode
cancelDrawingKeepsDraft ==
  /\ ~ModalOpen
  /\ isDrawing
  /\ isDrawing' = FALSE
  /\ last' = "cancelDrawing"
  /\ UNCHANGED <<variant, polygons, currentPolygon, newPolygonName, showSaveButton,
                 showNameDialog, loading, ops, server, latestResp, mutated>>

\* the Cancel button, had it hidden the Save Polygon button again
cancelDrawingHidesSave ==
  /\ ~ModalOpen
  /\ isDrawing
  /\ isDrawing' = FALSE
  /\ currentPolygon' = << >>
  /\ showSaveButton' = FALSE
  /\ last' = "cancelDrawing"
  /\ UNCHANGED <<variant, polygons, newPolygonName, showNameDialog,
                 loading, ops, server, latestResp, mutated>>

\* the Cancel button beside the canvas hint (rendered while drawing)
cancelDrawing ==
  /\ ~ModalOpen
  /\ isDrawing
  /\ isDrawing' = FALSE
  /\ currentPolygon' = << >>
  /\ last' = "cancelDrawing"
  /\ UNCHANGED <<variant, polygons, newPolygonName, showSaveButton, showNameDialog,
                 loading, ops, server, latestResp, mutated>>

\* the Save Polygon button under the canvas is disabled
saveButtonDisabled ==
  IF variant = "current"
    THEN loading \/ ~isDrawing \/ Len(currentPolygon) < 3
    ELSE ~isDrawing \/ Len(currentPolygon) < 3

\* click on the Save Polygon button under the canvas: setShowNameDialog(true)
requestSave ==
  /\ ~ModalOpen
  /\ showSaveButton
  /\ ~saveButtonDisabled
  /\ showNameDialog' = TRUE
  /\ last' = "requestSave"
  /\ UNCHANGED <<variant, polygons, currentPolygon, isDrawing, newPolygonName,
                 showSaveButton, loading, ops, server, latestResp, mutated>>

\* typing into the dialog's text field
setNewPolygonName(v) ==
  /\ showNameDialog
  /\ v # newPolygonName
  /\ newPolygonName' = v
  /\ last' = "typed"
  /\ UNCHANGED <<variant, polygons, currentPolygon, isDrawing, showSaveButton,
                 showNameDialog, loading, ops, server, latestResp, mutated>>

\* the dialog's two buttons are disabled
dialogActionsDisabled == variant = "current" /\ loading

\* the dialog's Cancel button, had it emptied the name field as well
cancelNamingClearsName ==
  /\ showNameDialog
  /\ ~dialogActionsDisabled
  /\ showNameDialog' = FALSE
  /\ newPolygonName' = << >>
  /\ last' = "cancelNaming"
  /\ UNCHANGED <<variant, polygons, currentPolygon, isDrawing,
                 showSaveButton, loading, ops, server, latestResp, mutated>>

\* the dialog's Cancel button: setShowNameDialog(false)
cancelNaming ==
  /\ showNameDialog
  /\ ~dialogActionsDisabled
  /\ showNameDialog' = FALSE
  /\ last' = "cancelNaming"
  /\ UNCHANGED <<variant, polygons, currentPolygon, isDrawing, newPolygonName,
                 showSaveButton, loading, ops, server, latestResp, mutated>>

\* Dialog onClose (backdrop click, Escape): setShowNameDialog(false)
dialogOnClose ==
  /\ showNameDialog
  /\ showNameDialog' = FALSE
  /\ last' = "dialogOnClose"
  /\ UNCHANGED <<variant, polygons, currentPolygon, isDrawing, newPolygonName,
                 showSaveButton, loading, ops, server, latestResp, mutated>>

-----------------------------------------------------------------------------
(* Handlers that start a remote call *)

\* the guard had the name been tested as typed, not trimmed
canSubmitUntrimmed == newPolygonName # << >> /\ Len(currentPolygon) > 2

\* the guard of handleCreatePolygon / handleSavePolygon
canSubmit == trim(newPolygonName) # << >> /\ Len(currentPolygon) > 2

\* createPolygon up to its first await: setLoading(true), POST issued
createPolygonIssue ==
  /\ loading' = setLoading(TRUE)
  /\ ops' = Append(ops, Op("create", trim(newPolygonName), newPolygonName,
                           currentPolygon, 0, FALSE, polygons))

\* the dialog's Save Polygon button (current component)
handleCreatePolygon ==
  /\ variant = "current"
  /\ showNameDialog
  /\ ~dialogActionsDisabled
  /\ IF canSubmit
       THEN /\ Len(ops) < MaxOps
            /\ Len(currentPolygon) <= MaxSavedPoints
            /\ createPolygonIssue
            /\ last' = "createIssued"
       ELSE /\ UNCHANGED <<loading, ops>>
            /\ last' = "createRefused"
  /\ UNCHANGED <<variant, polygons, uiVars, server, latestResp, mutated>>

\* the dialog's Save Polygon button (legacy component)
handleSavePolygon ==
  /\ variant = "legacy"
  /\ showNameDialog
  /\ IF canSubmit
       THEN /\ Len(ops) < MaxOps
            /\ Len(currentPolygon) <= MaxSavedPoints
            /\ createPolygonIssue
            /\ last' = "createIssued"
       ELSE /\ UNCHANGED <<loading, ops>>
            /\ last' = "createRefused"
  /\ UNCHANGED <<variant, polygons, uiVars, server, latestResp, mutated>>

\* deletePolygon up to its first await: setLoading(true), DELETE issued
deletePolygonIssue(id, conf) ==
  /\ loading' = setLoading(TRUE)
  /\ ops' = Append(ops, Op("delete", << >>, << >>, << >>, id, conf, polygons))

\* a list entry's delete icon (current component); answer is what the user
\* replies to window.confirm
handleDeletePolygon(id, answer) ==
  /\ variant = "current"
  /\ ~ModalOpen
  /\ id \in Ids(polygons)
  /\ IF answer
       THEN /\ Len(ops) < MaxOps
            /\ deletePolygonIssue(id, TRUE)
            /\ last' = "deleteIssued"
       ELSE /\ UNCHANGED <<loading, ops>>
            /\ last' = "deleteDeclined"
  /\ UNCHANGED <<variant, polygons, uiVars, server, latestResp, mutated>>

\* a list entry's delete icon (legacy component): no question is asked
handleDeletePolygonLegacy(id) ==
  /\ variant = "legacy"
  /\ ~ModalOpen
  /\ id \in Ids(polygons)
  /\ Len(ops) < MaxOps
  /\ deletePolygonIssue(id, FALSE)
  /\ last' = "deleteIssued"
  /\ UNCHANGED <<variant, polygons, uiVars, server, latestResp, mutated>>

-----------------------------------------------------------------------------
(* The remote store (spec.md section 6) *)

ListOutcomes == {"ok", "fail", "neterr"}

CreateOutcomes == {"created", "dupOk", "dupFail", "failObj", "failBad", "neterr"}

DeleteOutcomes == {"ok", "fail", "neterr"}

\* the id the store assigns
NewId(ps) == CHOOSE n \in 1..(Len(ps) + 1) : n \notin Ids(ps)

\* the answers the store may give to POST /polygons {name, points}
CreateAllowed(name, outcome) ==
  /\ outcome = "created" => name \notin NamesOf(server) /\ Len(server) < MaxStored
  /\ outcome \in {"dupOk", "dupFail"} => name \in NamesOf(server)

\* the store after POST /polygons
StoreAfterCreate(name, pts, outcome) ==
  IF outcome = "created"
    THEN Append(server, [id |-> NewId(server), name |-> name, points |-> pts])
    ELSE server

\* status of the answer: "ok" is 2xx, "fail" is non-2xx, "neterr" is fetch throwing
CreateStatus(outcome) ==
  CASE outcome \in {"created", "dupOk"} -> "ok"
    [] outcome = "neterr" -> "neterr"
    [] OTHER -> "fail"

\* body of the answer: "obj" is JSON without the error, "dup" is JSON carrying
\* error = "Polygon with this name already exists", "bad" is not JSON
CreateBody(outcome) ==
  CASE outcome \in {"dupOk", "dupFail"} -> "dup"
    [] outcome \in {"created", "failObj"} -> "obj"
    [] outcome = "failBad" -> "bad"
    [] OTHER -> "none"

\* the answers the store may give to DELETE /polygons/{id}
DeleteAllowed(id, outcome) == outcome = "ok" => id \in Ids(server)

\* the store after DELETE /polygons/{id}
StoreAfterDelete(id, outcome) ==
  IF outcome = "ok" THEN SelectSeq(server, LAMBDA p : p.id # id) ELSE server

\* GET /polygons is answered
ServeList(i, outcome) ==
  /\ ops[i].pc = "lsent"
  /\ ops' = [ops EXCEPT ![i].pc = "lresp", ![i].lstatus = outcome,
                        ![i].data = IF outcome = "ok" THEN server ELSE << >>]
  /\ latestResp' = IF ops[i].latest
                     THEN [state |-> outcome,
                           data |-> IF outcome = "ok" THEN server ELSE << >>]
                     ELSE latestResp
  /\ last' = "served"
  /\ UNCHANGED <<variant, polygons, uiVars, loading, server, mutated>>

-----------------------------------------------------------------------------
(* Resumption of the suspended handlers *)

\* the collection had the answer been appended to what it held
fetchPolygonsMerged(op) == IF op.lstatus = "ok" THEN polygons \o op.data ELSE polygons

\* the collection after fetchPolygons has resumed with op's answer:
\* setPolygons(data) on a 2xx, untouched otherwise
fetchPolygonsResult(op) == IF op.lstatus = "ok" THEN op.data ELSE polygons

listLabel(op) == IF op.lstatus = "ok" THEN "listOk" ELSE "listFailed"

\* the setters that end the Save handler, had the draft been left out
resetDraftKeepsPoints ==
  /\ isDrawing' = FALSE
  /\ newPolygonName' = << >>
  /\ showNameDialog' = FALSE
  /\ UNCHANGED <<currentPolygon, showSaveButton>>

\* the four setters that end handleCreatePolygon / handleSavePolygon
resetDraft ==
  /\ isDrawing' = FALSE
  /\ currentPolygon' = << >>
  /\ newPolygonName' = << >>
  /\ showNameDialog' = FALSE
  /\ UNCHANGED showSaveButton

\* fetchPolygons called by the mount effect resumes
fetchPolygons(i) ==
  /\ ops[i].kind = "list"
  /\ ops[i].pc = "lresp"
  /\ polygons' = fetchPolygonsResult(ops[i])
  /\ loading' = setLoading(FALSE)
  /\ ops' = RemoveAt(ops, i)
  /\ last' = listLabel(ops[i])
  /\ UNCHANGED <<variant, uiVars, server, latestResp, mutated>>

\* the store answers the POST and createPolygon resumes
createPolygon(i, outcome) ==
  /\ ops[i].kind = "create"
  /\ ops[i].pc = "sent"
  /\ CreateAllowed(ops[i].name, outcome)
  /\ server' = StoreAfterCreate(ops[i].name, ops[i].points, outcome)
  /\ CASE CreateStatus(outcome) = "ok" ->
            \* await fetchPolygons(): setLoading(true), GET issued
            /\ loading' = setLoading(TRUE)
            /\ ops' = [IssueList(i) EXCEPT ![i].status = "ok",
                                            ![i].body = CreateBody(outcome)]
            /\ latestResp' = Pending
            /\ last' = "createAccepted"
            /\ UNCHANGED uiVars
       [] CreateStatus(outcome) = "fail" /\ variant = "current" ->
            \* setLoading(false); return response.json()
            /\ loading' = FALSE
            /\ ops' = [ops EXCEPT ![i].pc = "json", ![i].status = "fail",
                                   ![i].body = CreateBody(outcome)]
            /\ last' = "createRejected"
            /\ UNCHANGED <<uiVars, latestResp>>
       [] CreateStatus(outcome) = "fail" /\ variant = "legacy" ->
            \* createPolygon returns, handleSavePolygon resets
            /\ resetDraft
            /\ ops' = RemoveAt(ops, i)
            /\ last' = IF CreateBody(outcome) = "dup" THEN "createDupReset" ELSE "createReset"
            /\ UNCHANGED <<loading, latestResp>>
       [] OTHER ->
            \* fetch threw: catch, setLoading(false), return null; the handler resets
            /\ loading' = setLoading(FALSE)
            /\ resetDraft
            /\ ops' = RemoveAt(ops, i)
            /\ last' = "createReset"
            /\ UNCHANGED latestResp
  /\ UNCHANGED <<variant, polygons, mutated>>

\* the fetchPolygons awaited by createPolygon resumes, then createPolygon
createPolygonRefetched(i) ==
  /\ ops[i].kind = "create"
  /\ ops[i].pc = "lresp"
  /\ polygons' = fetchPolygonsResult(ops[i])
  /\ mutated' = TRUE
  /\ IF variant = "current"
       THEN \* setLoading(false) twice; return response.json()
            /\ loading' = FALSE
            /\ ops' = [ops EXCEPT ![i].pc = "json"]
            /\ UNCHANGED uiVars
       ELSE \* createPolygon returns, handleSavePolygon resets
            /\ resetDraft
            /\ ops' = RemoveAt(ops, i)
            /\ UNCHANGED loading
  /\ last' = listLabel(ops[i])
  /\ UNCHANGED <<variant, server, latestResp>>

\* the end of handleCreatePolygon, had it only closed the dialog
handleCreatePolygonResumeKeepsDraft(i) ==
  /\ ops[i].pc = "json"
  /\ CASE ops[i].body = "bad" ->
            /\ UNCHANGED uiVars
            /\ last' = "createThrew"
       [] ops[i].body = "dup" ->
            /\ UNCHANGED uiVars
            /\ last' = "createKept"
       [] OTHER ->
            /\ showNameDialog' = FALSE
            /\ UNCHANGED <<currentPolygon, isDrawing, newPolygonName, showSaveButton>>
            /\ last' = IF ops[i].status = "ok" THEN "createSaved" ELSE "createReset"
  /\ ops' = RemoveAt(ops, i)
  /\ UNCHANGED <<variant, polygons, loading, server, latestResp, mutated>>

\* handleCreatePolygon resumes with the parsed body of the POST's answer
handleCreatePolygonResume(i) ==
  /\ ops[i].pc = "json"
  /\ CASE ops[i].body = "bad" ->
            \* response.json() rejects outside createPolygon's try: the handler
            \* ends with the exception
            /\ UNCHANGED uiVars
            /\ last' = "createThrew"
       [] ops[i].body = "dup" ->
            \* res?.error === 'Polygon with this name already exists': return
            /\ UNCHANGED uiVars
            /\ last' = "createKept"
       [] OTHER ->
            /\ resetDraft
            /\ last' = IF ops[i].status = "ok" THEN "createSaved" ELSE "createReset"
  /\ ops' = RemoveAt(ops, i)
  /\ UNCHANGED <<variant, polygons, loading, server, latestResp, mutated>>

\* deletePolygon, had its failure paths left loading as it was
deletePolygonKeepsBusy(i, outcome) ==
  /\ ops[i].kind = "delete"
  /\ ops[i].pc = "sent"
  /\ DeleteAllowed(ops[i].id, outcome)
  /\ server' = StoreAfterDelete(ops[i].id, outcome)
  /\ IF outcome = "ok"
       THEN /\ loading' = setLoading(TRUE)
            /\ ops' = [IssueList(i) EXCEPT ![i].status = "ok"]
            /\ latestResp' = Pending
            /\ last' = "deleteAccepted"
       ELSE /\ ops' = RemoveAt(ops, i)
            /\ last' = "deleteFailed"
            /\ UNCHANGED <<loading, latestResp>>
  /\ UNCHANGED <<variant, polygons, uiVars, mutated>>

\* deletePolygon, had it removed the polygon from the collection by itself
deletePolygonLocally(i, outcome) ==
  /\ ops[i].kind = "delete"
  /\ ops[i].pc = "sent"
  /\ DeleteAllowed(ops[i].id, outcome)
  /\ server' = StoreAfterDelete(ops[i].id, outcome)
  /\ IF outcome = "ok"
       THEN /\ loading' = setLoading(TRUE)
            /\ ops' = [IssueList(i) EXCEPT ![i].status = "ok"]
            /\ latestResp' = Pending
            /\ last' = "deleteAccepted"
            /\ polygons' = SelectSeq(polygons, LAMBDA p : p.id # ops[i].id)
       ELSE /\ loading' = setLoading(FALSE)
            /\ ops' = RemoveAt(ops, i)
            /\ last' = "deleteFailed"
            /\ UNCHANGED <<latestResp, polygons>>
  /\ UNCHANGED <<variant, uiVars, mutated>>

\* the store answers the DELETE and deletePolygon resumes
deletePolygon(i, outcome) ==
  /\ ops[i].kind = "delete"
  /\ ops[i].pc = "sent"
  /\ DeleteAllowed(ops[i].id, outcome)
  /\ server' = StoreAfterDelete(ops[i].id, outcome)
  /\ IF outcome = "ok"
       THEN /\ loading' = setLoading(TRUE)
            /\ ops' = [IssueList(i) EXCEPT ![i].status = "ok"]
            /\ latestResp' = Pending
            /\ last' = "deleteAccepted"
       ELSE /\ loading' = setLoading(FALSE)
            /\ ops' = RemoveAt(ops, i)
            /\ last' = "deleteFailed"
            /\ UNCHANGED latestResp
  /\ UNCHANGED <<variant, polygons, uiVars, mutated>>

\* the fetchPolygons awaited by deletePolygon resumes, then deletePolygon ends
deletePolygonRefetched(i) ==
  /\ ops[i].kind = "delete"
  /\ ops[i].pc = "lresp"
  /\ polygons' = fetchPolygonsResult(ops[i])
  /\ mutated' = TRUE
  /\ loading' = setLoading(FALSE)
  /\ ops' = RemoveAt(ops, i)
  /\ last' = listLabel(ops[i])
  /\ UNCHANGED <<variant, uiVars, server, latestResp>>

-----------------------------------------------------------------------------
(* The canvas *)

RECURSIVE sumOf(_, _)
\* points.reduce((sum, p) => sum + p[c], 0)
sumOf(points, c) ==
  IF points = << >> THEN 0 ELSE points[1][c] + sumOf(Tail(points), c)

\* what the forEach callback paints for polygons[index] (index from 0): a
\* closed path, filled and stroked in the hue index * 60, and the name at the
\* centroid, 20 to its left; nothing for a polygon of fewer than 3 points.
\* The centroid is exact for the polygons of this model.
paintPolygon(polygon, index) ==
  IF Len(polygon.points) > 2
    THEN << [path |-> polygon.points, closed |-> TRUE,
             fillHue |-> index * 60, strokeHue |-> index * 60, lineWidth |-> 2,
             text |-> polygon.name,
             textAt |-> <<(sumOf(polygon.points, 1) \div Len(polygon.points)) - 20,
                          sumOf(polygon.points, 2) \div Len(polygon.points)>>] >>
    ELSE << >>

RECURSIVE paintPolygonsDense(_, _)
\* the forEach, had it numbered only the polygons it paints
paintPolygonsDense(polys, index) ==
  IF index >= Len(polys) THEN << >>
  ELSE paintPolygon(polys[index + 1],
                    Cardinality({k \in 1..index : Len(polys[k].points) > 2}))
         \o paintPolygonsDense(polys, index + 1)

RECURSIVE paintPolygons(_, _)
\* polygons.forEach((polygon, index) => ...), from polygons[index] on
paintPolygons(polys, index) ==
  IF index >= Len(polys) THEN << >>
  ELSE paintPolygon(polys[index + 1], index) \o paintPolygons(polys, index + 1)

\* the draft: a red path through its points, closed and filled only with
\* more than 2 of them, and a dot of radius 4 on every point
paintDraft(draft) ==
  IF Len(draft) > 0
    THEN << [path |-> draft, closed |-> Len(draft) > 2, filled |-> Len(draft) > 2,
             stroke |-> "red", lineWidth |-> 2,
             dots |-> [k \in 1..Len(draft) |-> [at |-> draft[k], radius |-> 4]]] >>
    ELSE << >>

\* the body of img.onload: clear, background image, polygons, draft
drawCanvas(polys, draft) ==
  [image |-> TRUE, polygons |-> paintPolygons(polys, 0), draft |-> paintDraft(draft)]

\* the step called setPolygons or setCurrentPolygon: each call installs a new
\* array, so that the dependencies of the redraw effect differ
depsChanged ==
  \/ last' \in {"click", "startDrawing", "cancelDrawing", "createReset",
                "createDupReset", "createSaved", "listOk"}
  \/ /\ variant = "legacy"
     /\ \E i \in 1..Len(ops) :
          ops[i].kind = "create" /\ ops[i].pc = "lresp" /\ ops' = RemoveAt(ops, i)

\* useEffect(() => { drawCanvas() }, [polygons, currentPolygon]) up to
\* img.src = IMAGE_URL: a new image starts loading, nothing is painted yet
redrawEffect ==
  IF ctx /\ depsChanged
    THEN /\ Len(pendingDraws) < MaxDraws
         /\ pendingDraws' = Append(pendingDraws, Snapshot(polygons', currentPolygon'))
    ELSE UNCHANGED pendingDraws

\* an image has loaded: its onload paints the state its drawCanvas closed over.
\* Images load in any order.
imgOnload(k) ==
  /\ canvas' = drawCanvas(pendingDraws[k].polygons, pendingDraws[k].currentPolygon)
  /\ painted' = pendingDraws[k]
  /\ pendingDraws' = RemoveAt(pendingDraws, k)
  /\ last' = "painted"
  /\ UNCHANGED <<variant, polygons, uiVars, loading, ops, server, latestResp,
                 mutated, clicked, ctx>>

-----------------------------------------------------------------------------
(* Specification *)

\* the canvas's onClick: the handler, and the render that follows it
onClick(e) ==
  /\ handleCanvasClick(e)
  /\ clicked' = IF isDrawing THEN Append(clicked, e) ELSE clicked
  /\ redrawEffect
  /\ UNCHANGED <<ctx, canvas, painted>>

\* any other handler or resumption A, and the render that follows it
Step(A) ==
  /\ A
  /\ clicked' = IF currentPolygon' = << >> THEN << >> ELSE clicked
  /\ redrawEffect
  /\ UNCHANGED <<ctx, canvas, painted>>

Next ==
  \/ \E e \in Clicks : onClick(e)
  \/ Step(startDrawing)
  \/ Step(cancelDrawing)
  \/ Step(requestSave)
  \/ \E v \in NameInputs : Step(setNewPolygonName(v))
  \/ Step(cancelNaming)
  \/ Step(dialogOnClose)
  \/ Step(handleCreatePolygon)
  \/ Step(handleSavePolygon)
  \/ \E id \in Ids(polygons), answer \in BOOLEAN : Step(handleDeletePolygon(id, answer))
  \/ \E id \in Ids(polygons) : Step(handleDeletePolygonLegacy(id))
  \/ \E i \in 1..Len(ops), o \in ListOutcomes : Step(ServeList(i, o))
  \/ \E i \in 1..Len(ops) : Step(fetchPolygons(i))
  \/ \E i \in 1..Len(ops), o \in CreateOutcomes : Step(createPolygon(i, o))
  \/ \E i \in 1..Len(ops) : Step(createPolygonRefetched(i))
  \/ \E i \in 1..Len(ops) : Step(handleCreatePolygonResume(i))
  \/ \E i \in 1..Len(ops), o \in DeleteOutcomes : Step(deletePolygon(i, o))
  \/ \E i \in 1..Len(ops) : Step(deletePolygonRefetched(i))

Spec == Init /\ [][Next]_vars

\* the drawing side: clicks at two places, the draw controls, the list of the
\* mount effect, and the images loading
NextCanvas ==
  \/ \E e \in CanvasClicks : onClick(e)
  \/ Step(startDrawing)
  \/ Step(cancelDrawing)
  \/ \E i \in 1..Len(ops), o \in ListOutcomes : Step(ServeList(i, o))
  \/ \E i \in 1..Len(ops) : Step(fetchPolygons(i))
  \/ \E k \in 1..Len(pendingDraws) : imgOnload(k)

SpecCanvas == InitCanvas /\ [][NextCanvas]_vars

-----------------------------------------------------------------------------
(* Vocabulary of the properties *)

\* the component's state, without the history variables
stateVars == <<polygons, currentPolygon, isDrawing, newPolygonName,
               showSaveButton, showNameDialog, loading>>

\* this step issues a request of that kind (a handler was started)
Issued(kind) == Len(ops') = Len(ops) + 1 /\ ops'[Len(ops')].kind = kind

\* the suspended handlers with a request in flight
InFlightOps == {i \in 1..Len(ops) : InFlight(ops[i])}

\* this step ends the handler ops[i]
Ends(i) == ops' = RemoveAt(ops, i)

\* this step resumes the fetchPolygons of ops[i]
ListResumes(i) ==
  /\ ops[i].pc = "lresp"
  /\ \/ Ends(i)
     \/ Len(ops') = Len(ops) /\ ops'[i].pc = "json"

Idle(drawing, draft, name, dialog) ==
  ~drawing /\ draft = << >> /\ name = << >> /\ ~dialog

-----------------------------------------------------------------------------
(* Properties *)

\* C1: a step of the dialog's Save handler issues POST /polygons only if the
\* name field is non-empty after trimming and the draft has at least 3 points,
\* and the POST then carries the trimmed name and the draft; when either
\* condition fails the step issues nothing and changes no state variable.
C1_CreateOnlyWhenValid ==
  [][ /\ Issued("create") =>
           /\ trim(newPolygonName) # << >>
           /\ Len(currentPolygon) >= 3
           /\ ops'[Len(ops')].name = trim(newPolygonName)
           /\ ops'[Len(ops')].points = currentPolygon
      /\ ( /\ last' \in {"createIssued", "createRefused"}
           /\ (trim(newPolygonName) = << >> \/ Len(currentPolygon) < 3) )
         => UNCHANGED <<stateVars, ops, server>>
    ]_vars

\* C1 witness: the Save handler has just been run on a name of blanks only,
\* with a savable draft, and issued nothing.
C1_Witness ==
  /\ variant = "current"
  /\ last = "createRefused"
  /\ newPolygonName = <<" ">>
  /\ Len(currentPolygon) >= 3
  /\ \A i \in 1..Len(ops) : ops[i].kind # "create"

\* C2, as stated: in the current component loading is true exactly when
\* some remote call is in flight.
C2_LoadingIffInFlight ==
  variant = "current" => (loading <=> InFlightOps # {})

\* C3, as stated: while loading is true, the Draw New Polygon control
\* changes neither isDrawing nor the draft, and no DELETE is issued.
C3_GatedWhileLoading ==
  [][ (variant = "current" /\ loading) =>
        /\ last' = "startDrawing" => UNCHANGED <<isDrawing, currentPolygon>>
        /\ ~Issued("delete")
    ]_vars

\* C4, as stated: the naming dialog is opened only when not loading, drawing
\* and with at least 3 points; the dialog's Save handler does not run while
\* loading; so no POST is issued while another POST is in flight.
C4_SaveGated ==
  [][ variant = "current" =>
        /\ last' = "requestSave" =>
             ~loading /\ isDrawing /\ Len(currentPolygon) >= 3
        /\ last' \in {"createIssued", "createRefused"} => ~loading
        /\ Issued("create") =>
             \A i \in 1..Len(ops) : ~(ops[i].kind = "create" /\ ops[i].pc = "sent")
    ]_vars

\* C5, as stated: at most one remote operation is in flight.
C5_NoOverlap ==
  variant = "current" => Cardinality(InFlightOps) <= 1

\* C6, as stated: once a create or delete has completed successfully and
\* nothing is in flight, the collection is the answer to the most recently
\* issued GET /polygons.
C6_CollectionIsLatestList ==
  (variant = "current" /\ mutated /\ InFlightOps = {} /\ latestResp.state = "ok")
    => polygons = latestResp.data

\* C7, as stated: when the Save handler ends on the duplicate-name signal,
\* the draft, isDrawing, the name field, the open dialog and the collection
\* are what they were when the handler was invoked.
C7_DuplicateKeepsAll ==
  [][ \A i \in 1..Len(ops) :
        ( /\ ops[i].kind = "create"
          /\ Ends(i)
          /\ last' \in {"createKept", "createDupReset"} )
        => /\ currentPolygon' = ops[i].points
           /\ isDrawing'
           /\ newPolygonName' = ops[i].rawName
           /\ showNameDialog'
           /\ polygons' = ops[i].polys0
    ]_vars

\* C8, as stated: when the Save handler ends after a create that failed
\* without the duplicate signal, the dialog is closed, isDrawing is false and
\* the draft and the name field are empty.
C8_FailureResets ==
  [][ \A i \in 1..Len(ops) :
        ( /\ ops[i].kind = "create"
          /\ Ends(i)
          /\ \/ ops[i].pc = "sent" /\ last' = "createReset"
             \/ ops[i].pc = "json" /\ ops[i].status = "fail" /\ ops[i].body # "dup" )
        => Idle(isDrawing', currentPolygon', newPolygonName', showNameDialog')
    ]_vars

\* C9, as stated: every DELETE is issued after the user answered yes to the
\* confirmation, and a declined confirmation issues nothing and leaves loading
\* and the collection.
C9_DeleteConfirmed ==
  [][ /\ Issued("delete") => ops'[Len(ops')].confirmed
      /\ last' = "deleteDeclined" => UNCHANGED <<ops, loading, polygons>>
    ]_vars

\* C10: a step that resumes fetchPolygons with a 2xx answer sets the
\* collection to exactly the answered sequence, whatever it held; one that
\* resumes it with a failure leaves the collection as it was; and no other
\* step of a list (issuing the GET, the store answering) touches the collection.
C10_ListReplacesOrKeeps ==
  [][ /\ \A i \in 1..Len(ops) :
           ListResumes(i) =>
             polygons' = IF ops[i].lstatus = "ok" THEN ops[i].data ELSE polygons
      /\ last' = "listOk" =>
           \E i \in 1..Len(ops) :
             ListResumes(i) /\ ops[i].lstatus = "ok" /\ polygons' = ops[i].data
      /\ polygons' # polygons =>
           \E i \in 1..Len(ops) : ListResumes(i) /\ ops[i].lstatus = "ok"
    ]_vars

\* C10 witness: a failed list has just resumed and a non-empty collection,
\* installed by an earlier successful list, is still there.
C10_Witness ==
  /\ last = "listFailed"
  /\ polygons # << >>
  /\ polygons = server

\* C11: a cancelDrawing step, from whatever state it is taken, ends with
\* isDrawing false and the draft empty; a startDrawing step taken right after
\* it ends with isDrawing true and the draft still empty.
C11_CancelThenStart ==
  [][ /\ last' = "cancelDrawing" => ~isDrawing' /\ currentPolygon' = << >>
      /\ (last = "cancelDrawing" /\ last' = "startDrawing")
           => isDrawing' /\ currentPolygon' = << >> ]_vars

\* a draft of 3 points was cancelled and drawing started again: while the list
\* of the mount effect is in flight nothing but cancelDrawing discards a draft
C11_Witness ==
  /\ variant = "current"
  /\ last = "startDrawing"
  /\ showSaveButton
  /\ Len(ops) = 1 /\ ops[1].kind = "list"
  /\ isDrawing /\ currentPolygon = << >>

\* C12: the draft is exactly the canvas-local points of the clicks made since
\* startDrawing, in click order; once there are 3 or more of them and the
\* component is still drawing, the Save Polygon button is shown and, unless
\* loading, enabled; and whenever the canvas has been painted, a draft of 3 or
\* more points shows as one closed, filled path through its points, a draft of
\* 1 or 2 points as an open, unfilled one.
C12_DraftFollowsClicks ==
  /\ currentPolygon = [k \in 1..Len(clicked) |->
                         <<clicked[k].clientX - Rect.left, clicked[k].clientY - Rect.top>>]
  /\ (isDrawing /\ Len(clicked) >= 3)
       => /\ showSaveButton
          /\ ~(variant = "current" /\ loading) => ~saveButtonDisabled
  /\ (canvas.image /\ Len(painted.currentPolygon) >= 1)
       => /\ Len(canvas.draft) = 1
          /\ canvas.draft[1].path = painted.currentPolygon
          /\ canvas.draft[1].closed = (Len(painted.currentPolygon) >= 3)
          /\ canvas.draft[1].filled = (Len(painted.currentPolygon) >= 3)

\* three clicks at two places, the list settled, and the canvas painted from
\* this very draft
C12_Witness ==
  /\ variant = "current"
  /\ isDrawing
  /\ clicked = << [clientX |-> 12, clientY |-> 23], [clientX |-> 11, clientY |-> 21],
                  [clientX |-> 12, clientY |-> 23] >>
  /\ currentPolygon = << <<2, 3>>, <<1, 1>>, <<2, 3>> >>
  /\ ~loading /\ ~saveButtonDisabled
  /\ canvas.image /\ painted.currentPolygon = currentPolygon
  /\ canvas.draft[1].closed /\ canvas.draft[1].filled

\* this step settles the remote call of ops[i]: its last request was in flight
\* and the handler ends or is left with only the body of the answer to read
Settles(i) ==
  /\ InFlight(ops[i])
  /\ \/ Ends(i)
     \/ Len(ops') = Len(ops) /\ ops'[i].pc = "json"

\* C13: in the current component every step that settles a list, create or
\* delete call -- by success, a non-2xx answer, a transport error or an answer
\* whose body cannot be read -- leaves loading false, and loading is false
\* whenever no call is in flight.
C13_BusyReleased ==
  [][ variant = "current" =>
        /\ \A i \in 1..Len(ops) : Settles(i) => ~loading'
        /\ InFlightOps' = {} => ~loading' ]_vars

\* a create was answered non-2xx with an unreadable body: the handler is gone,
\* nothing is in flight, loading is false
C13_Witness ==
  /\ variant = "current"
  /\ last = "createThrew"
  /\ ops = << >>
  /\ ~loading

\* C14, as stated: no handler is ended by an error that a remote call let
\* through: a create whose answer has been received ends by the duplicate
\* return or by the four resetting setters, never by an exception.
C14_FailuresAbsorbed ==
  [][ \A i \in 1..Len(ops) :
        (ops[i].kind = "create" /\ ops[i].pc = "json" /\ Ends(i))
          => last' \in {"createKept", "createReset", "createSaved"} ]_vars

\* C15: whenever the canvas has been painted, the saved polygons it shows are
\* those of 3 or more points of the collection it was painted from, and the
\* one at 0-based position i of that collection is filled and stroked in the
\* hue i * 60 whatever its name and points: positions taken by polygons too
\* short to be painted count.
C15_HueByIndex ==
  canvas.image =>
    /\ \A j \in 1..Len(canvas.polygons) :
         \E i \in 1..Len(painted.polygons) :
           /\ painted.polygons[i].points = canvas.polygons[j].path
           /\ painted.polygons[i].name = canvas.polygons[j].text
           /\ canvas.polygons[j].fillHue = (i - 1) * 60
           /\ canvas.polygons[j].strokeHue = (i - 1) * 60
    /\ Len(canvas.polygons) =
         Cardinality({i \in 1..Len(painted.polygons) : Len(painted.polygons[i].points) >= 3})

\* a collection of three whose second polygon has 2 points: two are painted,
\* the last one, at index 2, in hue 120
C15_Witness ==
  /\ canvas.image
  /\ Len(painted.polygons) = 3
  /\ Len(painted.polygons[2].points) = 2
  /\ Len(canvas.polygons) = 2
  /\ canvas.polygons[2].text = painted.polygons[3].name
  /\ canvas.polygons[2].fillHue = 120

\* C16, as stated: at most one draw is waiting for its image at any time, and
\* once none is waiting the canvas shows the rendering of the present polygons
\* and draft (no draw of an older state has painted over a newer one).
C16_RedrawsDoNotRace ==
  /\ Len(pendingDraws) <= 1
  /\ pendingDraws = << >> => canvas = drawCanvas(polygons, currentPolygon)

\* the number of GET /polygons requests on their way to the store
ListsAsked == Cardinality({i \in 1..Len(ops) : ops[i].pc = "lsent"})

\* this step is the answer to the POST or DELETE of ops[i] reaching its handler
MutationAnswered(i) ==
  /\ ops[i].kind \in {"create", "delete"}
  /\ ops[i].pc = "sent"
  /\ \/ Ends(i)
     \/ Len(ops') = Len(ops) /\ ops'[i].pc # "sent"

\* C17: the collection changes only in a step in which a handler receives a
\* successful list answer, and then to the list received; a step in which a
\* create or delete is answered 2xx issues exactly one GET /polygons, by the
\* same handler, and leaves the collection as it is; one in which it fails
\* issues no GET and leaves the collection as it is; no other step issues a
\* GET.
C17_CollectionOnlyFromList ==
  [][ /\ polygons' # polygons
           => \E i \in 1..Len(ops) :
                ListResumes(i) /\ ops[i].lstatus = "ok" /\ polygons' = ops[i].data
      /\ \A i \in 1..Len(ops) :
           MutationAnswered(i)
             => /\ polygons' = polygons
                /\ IF last' \in {"createAccepted", "deleteAccepted"}
                     THEN /\ ops'[i].status = "ok" /\ ops'[i].pc = "lsent"
                          /\ ListsAsked' = ListsAsked + 1
                     ELSE ListsAsked' = ListsAsked
      /\ ListsAsked' > ListsAsked
           => \E i \in 1..Len(ops) : MutationAnswered(i) /\ ops'[i].status = "ok" ]_vars

\* a delete was answered 2xx, its one list came back and emptied the collection
C17_Witness ==
  /\ last = "listOk"
  /\ mutated
  /\ ops = << >>
  /\ polygons = << >>
  /\ server = << >>
  /\ latestResp.state = "ok"

\* C18, as stated: in every state the Save Polygon button is rendered exactly
\* when the draft has more than 1 point, and it is enabled only when the draft
\* has 3 or more: rendered but disabled with exactly 2 points, not rendered
\* with 0 or 1.
C18_SaveAffordance ==
  /\ showSaveButton <=> Len(currentPolygon) > 1
  /\ (showSaveButton /\ ~saveButtonDisabled) => Len(currentPolygon) >= 3

\* C19: a handler whose create was answered 2xx with the created polygon (no
\* duplicate signal) ends with isDrawing false, the draft and the name field
\* empty and the dialog closed; it ends only when its follow-up list has
\* settled too, and the steps before that one -- the POST's answer, the list's
\* answer reaching createPolygon -- leave draft, mode, name and dialog alone.
C19_SuccessEndsIdle ==
  [][ \A i \in 1..Len(ops) :
        ops[i].kind = "create" =>
          /\ (ops[i].status = "ok" /\ ops[i].body = "obj" /\ Ends(i))
               => /\ Idle(isDrawing', currentPolygon', newPolygonName', showNameDialog')
                  /\ \/ ops[i].pc = "json"
                     \/ ops[i].pc = "lresp" /\ variant = "legacy"
          /\ (ops[i].pc = "sent" /\ last' = "createAccepted" /\ ops'[i].pc = "lsent")
               => UNCHANGED uiVars
          /\ (ops[i].pc = "lresp" /\ Len(ops') = Len(ops) /\ ops'[i].pc = "json")
               => UNCHANGED uiVars ]_vars

\* the current component saved a polygon: the store holds it, the handler has
\* ended by its four setters
C19_Witness ==
  /\ variant = "current"
  /\ last = "createSaved"
  /\ server # << >>
  /\ Idle(isDrawing, currentPolygon, newPolygonName, showNameDialog)

\* C20: a step of the dialog's Cancel button or of its onClose closes the
\* dialog and changes nothing else: draft, isDrawing (true before and after),
\* name field, loading, collection, Save button and the calls in flight stay;
\* a canvas click that follows it is appended to that same draft.
C20_CancelNamingOnlyCloses ==
  [][ /\ last' \in {"cancelNaming", "dialogOnClose"}
           => /\ showNameDialog /\ ~showNameDialog'
              /\ isDrawing /\ isDrawing'
              /\ UNCHANGED <<currentPolygon, isDrawing, newPolygonName, showSaveButton,
                             loading, polygons, ops, server>>
      /\ (last \in {"cancelNaming", "dialogOnClose"} /\ last' \in {"click", "clickIgnored"})
           => /\ last' = "click"
              /\ Len(currentPolygon') = Len(currentPolygon) + 1
              /\ SubSeq(currentPolygon', 1, Len(currentPolygon)) = currentPolygon ]_vars

\* the dialog was cancelled with a name typed: the draft, the name and the
\* drawing mode are still there
C20_Witness ==
  /\ last = "cancelNaming"
  /\ ~showNameDialog
  /\ isDrawing
  /\ Len(currentPolygon) = 3
  /\ newPolygonName = <<" ", "a">>

\* C21: after every step, a draft that has points belongs to an active drawing
\* session (isDrawing is true) -- whatever the step was, the end of a Save
\* handler included -- and a canvas click made while not drawing changes no
\* state variable, no call in flight and nothing in the store.
C21_DraftOnlyWhileDrawing ==
  [][ /\ currentPolygon' # << >> => isDrawing'
      /\ (last' \in {"click", "clickIgnored"} /\ ~isDrawing)
           => UNCHANGED <<stateVars, ops, server>> ]_vars

\* a click on the canvas after a create has ended and reset the draft: nothing
\* is drawn, nothing changes
C21_Witness ==
  /\ last = "clickIgnored"
  /\ mutated
  /\ ~isDrawing
  /\ currentPolygon = << >>
  /\ showSaveButton

\* C22, as stated: in the current component, from the step that issues a
\* create to the step that ends its handler, no canvas click, cancelDrawing,
\* startDrawing or dismissal of the dialog takes place, and the draft is the
\* point sequence that was submitted -- so that what the handler's end resets
\* or keeps is exactly what was submitted.
C22_DraftFrozenDuringCreate ==
  [][ variant = "current" =>
        \A i \in 1..Len(ops) :
          ops[i].kind = "create"
            => /\ last' \notin {"click", "cancelDrawing", "startDrawing",
                                "cancelNaming", "dialogOnClose"}
               /\ currentPolygon = ops[i].points ]_vars

\* C23: showSaveButton never goes back to false, whatever the step; it goes
\* from false to true only in an accepted canvas click made on a draft that
\* already has 2 or more points, and every such click leaves it true; while
\* it is true and the component is not drawing, the Save Polygon button is
\* rendered disabled.
C23_SaveButtonMonotone ==
  [][ /\ showSaveButton => showSaveButton'
      /\ (~showSaveButton /\ showSaveButton')
           => last' = "click" /\ isDrawing /\ Len(currentPolygon) >= 2
      /\ (last' = "click" /\ isDrawing /\ Len(currentPolygon) >= 2) => showSaveButton'
      /\ (showSaveButton' /\ ~isDrawing') => saveButtonDisabled' ]_vars

\* a draft of 3 points was cancelled: no draft, not drawing, and the button is
\* still rendered, disabled
C23_Witness ==
  /\ last = "cancelDrawing"
  /\ showSaveButton
  /\ saveButtonDisabled
  /\ ~isDrawing
  /\ currentPolygon = << >>

=============================================================================
